---- MODULE Spec2Model ----
(***************************************************************************)
(* Model of the desktop shell's federated authentication (auth.rs): the    *)
(* device-code session slot, the four-hop token exchange and the keyring   *)
(* entries it writes.  Every tauri command is a task that advances through *)
(* its await points; the environment (identity provider, Xbox, Minecraft   *)
(* services, OS keyring) answers nondeterministically.                     *)
(***************************************************************************)
EXTENDS Integers, Sequences, FiniteSets, TLC

\* ------------------------------------------------------------- bounds
NumTasks == 2     \* command invocations that may be in flight together
MaxCode == 2      \* distinct device codes the provider issues
MaxTok == 2       \* distinct tokens of one kind a service issues
MaxPid == 2       \* game processes spawned in one run of the shell
MaxLen == 6       \* characters of `java -version` output

Tasks == 1..NumTasks
NoTask == 0

\* Option<T> is a sequence of length at most one.
None == <<>>
Some(x) == <<x>>
IsSome(o) == Len(o) = 1
Unwrap(o) == o[1]
Option(S) == {None} \cup {Some(x) : x \in S}

\* ------------------------------------------------------------- values
\* Opaque strings are tagged by the service that issued them.
DeviceCodes == {<<"dc", i>> : i \in 1..MaxCode}
AccessToks == {<<"at", 1>>}
RefreshToks == {<<"rt", i>> : i \in 1..MaxTok}
XblToks == {<<"xbl", 1>>}
XstsToks == {<<"xsts", 1>>}
McToks == {<<"mc", i>> : i \in 1..MaxTok}
ProfileIds == {1, 2}          \* two Minecraft accounts

\* verification_uri, expires_in and interval travel with the clone unread.
DeviceCodeResponse == [device_code : DeviceCodes, user_code : {"ABC-123"}]
TokenResponse == [access_token : AccessToks, refresh_token : RefreshToks]
XboxLiveAuthResponse(Toks) ==
    [Token : Toks,
     xui : {<<>>, << <<"uhs", 1>> >>, << <<"uhs", 2>>, <<"uhs", 1>> >>}]
MinecraftAuthResponse == [access_token : McToks]
MinecraftProfile == [id : ProfileIds, name : {"steve"}]

\* The account record of a finished chain.  Its id (a fresh random uuid) and
\* created_at (the clock) come from the environment and decide nothing.
LauncherAccount(profile) ==
    [uuid |-> profile.id, username |-> profile.name, account_type |-> "msa",
     last_used |-> None]

MSAuthStatus(status, account, error) ==
    [status |-> status, account |-> account, error |-> error]

\* format!("mc_access_token_{id}") / format!("ms_refresh_token_{id}")
McKey(id) == <<"mc_access_token_", id>>
MsKey(id) == <<"ms_refresh_token_", id>>
Keys == {McKey(i) : i \in ProfileIds} \cup {MsKey(i) : i \in ProfileIds}

\* format!("Auth error: {error_code}")
AuthErrorText(error_code) == <<"Auth error: ", error_code>>
DeviceCodeExpiredText == <<"Device code expired", "">>

\* -------------------------------------------------- provider responses
\* A response is a transport failure or a status line with a body.  A body
\* is either not JSON at all, or a JSON object: one with a string "error"
\* member, one with neither that nor token members, or a TokenResponse.
NetErr == [net |-> FALSE, status |-> 0, json |-> FALSE, error |-> None, tok |-> None, dc |-> None]
HttpResp(status, json, error, tok, dc) ==
    [net |-> TRUE, status |-> status, json |-> json, error |-> error, tok |-> tok, dc |-> dc]

ErrorCodes == {"authorization_pending", "expired_token", "access_denied"}
TokenStatuses == {200, 400, 500}
TokenEndpointResponses ==
    {NetErr}
    \cup {HttpResp(s, FALSE, None, None, None) : s \in TokenStatuses}
    \cup {HttpResp(s, TRUE, e, None, None) : s \in TokenStatuses, e \in Option(ErrorCodes)}
    \cup {HttpResp(s, TRUE, None, Some(k), None) : s \in TokenStatuses, k \in TokenResponse}

DeviceStatuses == {200, 500}
DeviceEndpointResponses ==
    {NetErr}
    \cup {HttpResp(s, FALSE, None, None, None) : s \in DeviceStatuses}
    \cup {HttpResp(s, TRUE, None, None, d) :
            s \in DeviceStatuses, d \in Option(DeviceCodeResponse)}

\* res.status().is_success()
IsSuccess(status) == status >= 200 /\ status <= 299

\* Faulty variant: the provider's code is dropped and "unknown" reported.
ErrorCodeOfAlwaysUnknown(resp) == "unknown"

\* error["error"].as_str().unwrap_or("unknown")
ErrorCodeOf(resp) == IF IsSome(resp.error) THEN Unwrap(resp.error) ELSE "unknown"

\* ------------------------------------------------------------- state
VARIABLES
    pending_auth,   \* AuthState.pending_auth: Option<DeviceCodeResponse>
    lock,           \* holder of the pending_auth mutex, or NoTask
    store,          \* the OS keyring: key -> Option<secret>
    pc,             \* where each task stands in its command
    op,             \* the command a task runs, "" when idle
    arg,            \* account_uuid argument of the command, 0 when none
    loc,            \* the task's local variables
    res,            \* the command's return value, once it returned
    sent,           \* requests the invocation has issued so far
    resp,           \* the token/device endpoint response the task received
    snap,           \* store and slot as they were when the command began
    seen            \* what the hops answered to the invocation

\* launcher.rs
VARIABLES
    running_games,  \* LauncherState.running_games: Vec<GameProcess>
    procs,          \* the children spawned so far and their exit watchers
    lpc,            \* where each task stands in its launcher command
    lreq,           \* the launcher command a task runs and its arguments
    lres            \* the launcher command's return value

\* java.rs
VARIABLES
    jpc,            \* where detect_java_at_path stands
    stderr,         \* what `java -version` wrote to stderr
    jres            \* what parse_java_version returned

authVars == <<pending_auth, lock, store, pc, op, arg, loc, res, sent, resp, snap, seen>>
launcherVars == <<running_games, procs, lpc, lreq, lres>>
javaVars == <<jpc, stderr, jres>>
vars == <<pending_auth, lock, store, pc, op, arg, loc, res, sent, resp, snap, seen,
          running_games, procs, lpc, lreq, lres, jpc, stderr, jres>>

NoLoc ==
    [dc |-> None, token |-> None, xbl |-> None, uhs |-> None, xsts |-> None,
     mc |-> None, profile |-> None, out |-> None]
NoRes == [done |-> FALSE, ok |-> FALSE, err |-> "", val |-> None]
Ok(v) == [done |-> TRUE, ok |-> TRUE, err |-> "", val |-> v]
Err(e) == [done |-> TRUE, ok |-> FALSE, err |-> e, val |-> None]
\* mc, profile: the bodies hops 3 and 4 answered; xui: the claims list hop 1
\* answered; refused: some hop answered with a non-success status.
NoSeen == [mc |-> None, profile |-> None, xui |-> None, refused |-> FALSE]

\* A hop was answered, and with a non-success status.
Refusal(r) == r.net /\ ~IsSuccess(r.status)
NoSnap == [taken |-> FALSE, store |-> [k \in Keys |-> None], pending |-> None]

\* ------------------------------------------------- launcher values
InstanceIds == {1, 2}         \* two game instances
Pids == 1..MaxPid
NoPid == 0

\* started_at (the clock) travels with the record and decides nothing.
GameProcess(instance_id, pid) == [instance_id |-> instance_id, pid |-> pid]

\* A pid not spawned yet, and the child once spawned.
NoProc == [instance_id |-> 0, alive |-> FALSE, watcher |-> "none"]
NoReq == [cmd |-> "", instance_id |-> 0, account_id |-> 0, pid |-> NoPid, had |-> FALSE]

\* LauncherState::new(): no game running, no child spawned
LauncherInit ==
    /\ running_games = <<>>
    /\ procs = [p \in Pids |-> NoProc]
    /\ lpc = [t \in Tasks |-> "idle"]
    /\ lreq = [t \in Tasks |-> NoReq]
    /\ lres = [t \in Tasks |-> NoRes]

\* No java binary has been probed.
JavaInit ==
    /\ jpc = "idle"
    /\ stderr = <<>>
    /\ jres = None

\* AuthState::new() and LauncherState::new(), every task idle
IdleInit ==
    /\ LauncherInit
    /\ JavaInit
    /\ pending_auth = None
    /\ lock = NoTask
    /\ pc = [t \in Tasks |-> "idle"]
    /\ op = [t \in Tasks |-> ""]
    /\ arg = [t \in Tasks |-> 0]
    /\ loc = [t \in Tasks |-> NoLoc]
    /\ res = [t \in Tasks |-> NoRes]
    /\ sent = [t \in Tasks |-> <<>>]
    /\ resp = [t \in Tasks |-> NetErr]
    /\ snap = [t \in Tasks |-> NoSnap]
    /\ seen = [t \in Tasks |-> NoSeen]

\* The shell starts with an empty keyring.
Init == IdleInit /\ store = [k \in Keys |-> None]

\* The shell starts with the keyring a completed login of profile 1 left.
SignedInInit ==
    /\ IdleInit
    /\ store = [k \in Keys |->
                 IF k = McKey(1) THEN Some(<<"mc", 1>>)
                 ELSE IF k = MsKey(1) THEN Some(<<"rt", 1>>)
                 ELSE None]

\* A command is invoked: remember what it was called with.
Begin(t, name, id) ==
    /\ pc[t] = "idle"
    /\ op' = [op EXCEPT ![t] = name]
    /\ arg' = [arg EXCEPT ![t] = id]
    /\ snap' = [snap EXCEPT ![t] = [taken |-> TRUE, store |-> store, pending |-> pending_auth]]

\* The command returns r to its caller.
Finish(t, r) ==
    /\ pc' = [pc EXCEPT ![t] = "ret"]
    /\ res' = [res EXCEPT ![t] = r]
    /\ loc' = [loc EXCEPT ![t] = NoLoc]

\* The caller takes the result; the task may run another command.
Return(t) ==
    /\ pc[t] = "ret"
    /\ pc' = [pc EXCEPT ![t] = "idle"]
    /\ op' = [op EXCEPT ![t] = ""]
    /\ arg' = [arg EXCEPT ![t] = 0]
    /\ res' = [res EXCEPT ![t] = NoRes]
    /\ sent' = [sent EXCEPT ![t] = <<>>]
    /\ resp' = [resp EXCEPT ![t] = NetErr]
    /\ snap' = [snap EXCEPT ![t] = NoSnap]
    /\ seen' = [seen EXCEPT ![t] = NoSeen]
    /\ UNCHANGED <<pending_auth, lock, store, loc>>
    /\ UNCHANGED <<launcherVars, javaVars>>

\* ------------------------------------------------------ ms_auth_start
\* client.post(.../devicecode).form(&params).send()
StartSend(t) ==
    /\ Begin(t, "start", 0)
    /\ pc' = [pc EXCEPT ![t] = "start_wait"]
    /\ sent' = [sent EXCEPT ![t] = << [ep |-> "devicecode", with |-> <<>>] >>]
    /\ UNCHANGED <<pending_auth, lock, store, loc, res, resp, seen>>
    /\ UNCHANGED <<launcherVars, javaVars>>

\* What ms_auth_start makes of the response: an error text, or "" when the
\* body parsed as a DeviceCodeResponse.
StartOutcome(r) ==
    IF ~r.net THEN "device code request failed"
    ELSE IF ~IsSuccess(r.status) THEN "device code endpoint returned error"
    ELSE IF ~(r.json /\ IsSome(r.dc)) THEN "failed to parse device code response"
    ELSE ""

StartRecv(t) ==
    /\ pc[t] = "start_wait"
    /\ \E r \in DeviceEndpointResponses :
        /\ resp' = [resp EXCEPT ![t] = r]
        /\ IF StartOutcome(r) # ""
           THEN Finish(t, Err(StartOutcome(r)))
           ELSE /\ pc' = [pc EXCEPT ![t] = "start_lock"]
                /\ loc' = [loc EXCEPT ![t].dc = r.dc]
                /\ UNCHANGED res
    /\ UNCHANGED <<pending_auth, lock, store, op, arg, sent, snap, seen>>
    /\ UNCHANGED <<launcherVars, javaVars>>

\* state.pending_auth.lock().unwrap()
StartLock(t) ==
    /\ pc[t] = "start_lock"
    /\ lock = NoTask
    /\ lock' = t
    /\ pc' = [pc EXCEPT ![t] = "start_store"]
    /\ UNCHANGED <<pending_auth, store, op, arg, loc, res, sent, resp, snap, seen>>
    /\ UNCHANGED <<launcherVars, javaVars>>

\* Faulty variant: a session already pending is kept, the new one only returned.
StartStoreKeepingOld(t) ==
    /\ pc[t] = "start_store"
    /\ pending_auth' = IF IsSome(pending_auth) THEN pending_auth ELSE Some(Unwrap(loc[t].dc))
    /\ lock' = NoTask
    /\ Finish(t, Ok(loc[t].dc))
    /\ UNCHANGED <<store, op, arg, sent, resp, snap, seen>>
    /\ UNCHANGED <<launcherVars, javaVars>>

\* *guard = Some(device_code.clone()); drop(guard); Ok(device_code)
StartStore(t) ==
    /\ pc[t] = "start_store"
    /\ pending_auth' = Some(Unwrap(loc[t].dc))
    /\ lock' = NoTask
    /\ Finish(t, Ok(loc[t].dc))
    /\ UNCHANGED <<store, op, arg, sent, resp, snap, seen>>
    /\ UNCHANGED <<launcherVars, javaVars>>

\* ------------------------------------------------------- ms_auth_poll
\* state.pending_auth.lock().unwrap()
PollLock(t) ==
    /\ Begin(t, "poll", 0)
    /\ lock = NoTask
    /\ lock' = t
    /\ pc' = [pc EXCEPT ![t] = "poll_read"]
    /\ UNCHANGED <<pending_auth, store, loc, res, sent, resp, seen>>
    /\ UNCHANGED <<launcherVars, javaVars>>

\* Faulty variant: an empty slot is reported as a poll still pending.
PollReadEmptyAsPending(t) ==
    /\ pc[t] = "poll_read"
    /\ lock' = NoTask
    /\ IF IsSome(pending_auth)
       THEN /\ pc' = [pc EXCEPT ![t] = "poll_send"]
            /\ loc' = [loc EXCEPT ![t].dc = pending_auth]
            /\ UNCHANGED res
       ELSE Finish(t, Ok(Some(MSAuthStatus("pending", None, None))))
    /\ UNCHANGED <<pending_auth, store, op, arg, sent, resp, snap, seen>>
    /\ UNCHANGED <<launcherVars, javaVars>>

\* Faulty variant: the guard is bound to a name and lives on after the copy.
PollReadHoldingLock(t) ==
    /\ pc[t] = "poll_read"
    /\ lock' = IF IsSome(pending_auth) THEN t ELSE NoTask
    /\ IF IsSome(pending_auth)
       THEN /\ pc' = [pc EXCEPT ![t] = "poll_send"]
            /\ loc' = [loc EXCEPT ![t].dc = pending_auth]
            /\ UNCHANGED res
       ELSE Finish(t, Err("No pending auth"))
    /\ UNCHANGED <<pending_auth, store, op, arg, sent, resp, snap, seen>>
    /\ UNCHANGED <<launcherVars, javaVars>>

\* .clone().ok_or("No pending auth")?  -- the guard drops with the statement
PollRead(t) ==
    /\ pc[t] = "poll_read"
    /\ lock' = NoTask
    /\ IF IsSome(pending_auth)
       THEN /\ pc' = [pc EXCEPT ![t] = "poll_send"]
            /\ loc' = [loc EXCEPT ![t].dc = pending_auth]
            /\ UNCHANGED res
       ELSE Finish(t, Err("No pending auth"))
    /\ UNCHANGED <<pending_auth, store, op, arg, sent, resp, snap, seen>>
    /\ UNCHANGED <<launcherVars, javaVars>>

\* client.post(.../token).form(&params).send() with the copied device code
PollSend(t) ==
    /\ pc[t] = "poll_send"
    /\ pc' = [pc EXCEPT ![t] = "poll_wait"]
    /\ sent' = [sent EXCEPT ![t] =
                 Append(@, [ep |-> "token", with |-> <<Unwrap(loc[t].dc).device_code>>])]
    /\ UNCHANGED <<pending_auth, lock, store, op, arg, loc, res, resp, snap, seen>>
    /\ UNCHANGED <<launcherVars, javaVars>>

\* Faulty variant: authorization_pending clears the slot like the other codes.
PollStatusForClearingPending(error_code) ==
    IF error_code = "authorization_pending"
    THEN [clear |-> TRUE, status |-> MSAuthStatus("pending", None, None)]
    ELSE IF error_code = "expired_token"
    THEN [clear |-> TRUE,
          status |-> MSAuthStatus("expired", None, Some(DeviceCodeExpiredText))]
    ELSE [clear |-> TRUE,
          status |-> MSAuthStatus("error", None, Some(AuthErrorText(error_code)))]

\* Faulty variant: expired_token reports "expired" but leaves the slot alone.
PollStatusForKeepingExpired(error_code) ==
    IF error_code = "authorization_pending"
    THEN [clear |-> FALSE, status |-> MSAuthStatus("pending", None, None)]
    ELSE IF error_code = "expired_token"
    THEN [clear |-> FALSE,
          status |-> MSAuthStatus("expired", None, Some(DeviceCodeExpiredText))]
    ELSE [clear |-> TRUE,
          status |-> MSAuthStatus("error", None, Some(AuthErrorText(error_code)))]

\* The status the 400 branch reports for an error code, and whether it
\* clears the slot first.
PollStatusFor(error_code) ==
    IF error_code = "authorization_pending"
    THEN [clear |-> FALSE, status |-> MSAuthStatus("pending", None, None)]
    ELSE IF error_code = "expired_token"
    THEN [clear |-> TRUE,
          status |-> MSAuthStatus("expired", None, Some(DeviceCodeExpiredText))]
    ELSE [clear |-> TRUE,
          status |-> MSAuthStatus("error", None, Some(AuthErrorText(error_code)))]

\* res.json::<TokenResponse>(): the token members must be there
ParseToken(r) == IF r.json THEN r.tok ELSE None

\* Faulty variant: a transport failure of the token request drops the session.
PollRecvDroppingSession(t) ==
    /\ pc[t] = "poll_wait"
    /\ \E r \in TokenEndpointResponses :
        /\ resp' = [resp EXCEPT ![t] = r]
        /\ pending_auth' = IF r.net THEN pending_auth ELSE None
        /\ IF ~r.net
           THEN Finish(t, Err("token poll failed"))
           ELSE IF r.status = 400
           THEN IF ~r.json
                THEN Finish(t, Err("failed to parse error response"))
                ELSE LET d == PollStatusFor(ErrorCodeOf(r)) IN
                     IF d.clear
                     THEN /\ pc' = [pc EXCEPT ![t] = "poll_clear_lock"]
                          /\ loc' = [loc EXCEPT ![t].out = Some(d.status)]
                          /\ UNCHANGED res
                     ELSE Finish(t, Ok(Some(d.status)))
           ELSE IF ~IsSome(ParseToken(r))
           THEN Finish(t, Err("failed to parse token response"))
           ELSE /\ pc' = [pc EXCEPT ![t] = "hop1"]
                /\ loc' = [loc EXCEPT ![t].token = ParseToken(r)]
                /\ UNCHANGED res
    /\ UNCHANGED <<lock, store, op, arg, sent, snap, seen>>
    /\ UNCHANGED <<launcherVars, javaVars>>

\* .send().await.map_err(..)?, the 400 branch, and res.json::<TokenResponse>()
PollRecv(t) ==
    /\ pc[t] = "poll_wait"
    /\ \E r \in TokenEndpointResponses :
        /\ resp' = [resp EXCEPT ![t] = r]
        /\ IF ~r.net
           THEN Finish(t, Err("token poll failed"))
           ELSE IF r.status = 400
           THEN IF ~r.json
                THEN Finish(t, Err("failed to parse error response"))
                ELSE LET d == PollStatusFor(ErrorCodeOf(r)) IN
                     IF d.clear
                     THEN /\ pc' = [pc EXCEPT ![t] = "poll_clear_lock"]
                          /\ loc' = [loc EXCEPT ![t].out = Some(d.status)]
                          /\ UNCHANGED res
                     ELSE Finish(t, Ok(Some(d.status)))
           ELSE IF ~IsSome(ParseToken(r))
           THEN Finish(t, Err("failed to parse token response"))
           ELSE /\ pc' = [pc EXCEPT ![t] = "hop1"]
                /\ loc' = [loc EXCEPT ![t].token = ParseToken(r)]
                /\ UNCHANGED res
    /\ UNCHANGED <<pending_auth, lock, store, op, arg, sent, snap, seen>>
    /\ UNCHANGED <<launcherVars, javaVars>>

\* state.pending_auth.lock().unwrap() of a clearing assignment
PollClearLock(t) ==
    /\ pc[t] = "poll_clear_lock"
    /\ lock = NoTask
    /\ lock' = t
    /\ pc' = [pc EXCEPT ![t] = "poll_clear"]
    /\ UNCHANGED <<pending_auth, store, op, arg, loc, res, sent, resp, snap, seen>>
    /\ UNCHANGED <<launcherVars, javaVars>>

\* Faulty variant: the status is returned without resetting the slot.
PollClearKeepingSlot(t) ==
    /\ pc[t] = "poll_clear"
    /\ pending_auth' = pending_auth
    /\ lock' = NoTask
    /\ Finish(t, Ok(loc[t].out))
    /\ UNCHANGED <<store, op, arg, sent, resp, snap, seen>>
    /\ UNCHANGED <<launcherVars, javaVars>>

\* *guard = None; drop(guard); return Ok(MSAuthStatus {..})
PollClear(t) ==
    /\ pc[t] = "poll_clear"
    /\ pending_auth' = None
    /\ lock' = NoTask
    /\ Finish(t, Ok(loc[t].out))
    /\ UNCHANGED <<store, op, arg, sent, resp, snap, seen>>
    /\ UNCHANGED <<launcherVars, javaVars>>

\* ------------------------------------------------- complete_auth_chain
\* A hop's answer: a transport failure, or a status with a body that
\* deserializes into the hop's struct (parsed) or does not.
HopStatuses == {200, 401}
HopResponses(Body) ==
    {[net |-> FALSE, status |-> 0, parsed |-> None]}
    \cup {[net |-> TRUE, status |-> s, parsed |-> b] :
            s \in HopStatuses, b \in Option(Body)}

\* `?` inside the chain: the command returns the error at once.
ChainFail(t, e) == Finish(t, Err(e))

\* xbox_res ... .send().await?.json().await?, then .xui.first().ok_or(..)?
Hop1(t) ==
    /\ pc[t] = "hop1"
    /\ sent' = [sent EXCEPT ![t] =
                 Append(@, [ep |-> "xbl", with |-> <<Unwrap(loc[t].token).access_token>>])]
    /\ \E r \in HopResponses(XboxLiveAuthResponse(XblToks)) :
        /\ seen' = [seen EXCEPT ![t].refused = @ \/ Refusal(r),
                                ![t].xui = IF IsSome(r.parsed)
                                           THEN Some(Unwrap(r.parsed).xui) ELSE None]
        /\ IF ~r.net THEN ChainFail(t, "Xbox Live auth failed")
           ELSE IF ~IsSome(r.parsed) THEN ChainFail(t, "Xbox Live response parse failed")
           ELSE IF Unwrap(r.parsed).xui = <<>>
           THEN ChainFail(t, "No Xbox user hash in response")
           ELSE /\ pc' = [pc EXCEPT ![t] = "hop2"]
                /\ loc' = [loc EXCEPT ![t].xbl = Some(Unwrap(r.parsed).Token),
                                      ![t].uhs = Some(Head(Unwrap(r.parsed).xui))]
                /\ UNCHANGED res
    /\ UNCHANGED <<pending_auth, lock, store, op, arg, resp, snap>>
    /\ UNCHANGED <<launcherVars, javaVars>>

\* Faulty variant: a transport failure of hop 2 is retried once.
Hop2Retrying(t) ==
    /\ pc[t] = "hop2"
    /\ sent' = [sent EXCEPT ![t] =
                 Append(@, [ep |-> "xsts", with |-> <<Unwrap(loc[t].xbl)>>])]
    /\ \E r \in HopResponses(XboxLiveAuthResponse(XstsToks)) :
        /\ seen' = [seen EXCEPT ![t].refused = @ \/ Refusal(r)]
        /\ IF ~r.net /\ Len(sent[t]) = 2
           THEN UNCHANGED <<pc, loc, res>>
           ELSE IF ~r.net THEN ChainFail(t, "XSTS auth failed")
           ELSE IF ~IsSome(r.parsed) THEN ChainFail(t, "XSTS response parse failed")
           ELSE /\ pc' = [pc EXCEPT ![t] = "hop3"]
                /\ loc' = [loc EXCEPT ![t].xsts = Some(Unwrap(r.parsed).Token),
                                      ![t].xbl = None]
                /\ UNCHANGED res
    /\ UNCHANGED <<pending_auth, lock, store, op, arg, resp, snap>>
    /\ UNCHANGED <<launcherVars, javaVars>>

\* Faulty variant: the user hash is replaced by the one hop 2 answers.
Hop2TakingUserHash(t) ==
    /\ pc[t] = "hop2"
    /\ sent' = [sent EXCEPT ![t] =
                 Append(@, [ep |-> "xsts", with |-> <<Unwrap(loc[t].xbl)>>])]
    /\ \E r \in HopResponses(XboxLiveAuthResponse(XstsToks)) :
        /\ seen' = [seen EXCEPT ![t].refused = @ \/ Refusal(r)]
        /\ IF ~r.net THEN ChainFail(t, "XSTS auth failed")
           ELSE IF ~IsSome(r.parsed) THEN ChainFail(t, "XSTS response parse failed")
           ELSE /\ pc' = [pc EXCEPT ![t] = "hop3"]
                /\ loc' = [loc EXCEPT ![t].xsts = Some(Unwrap(r.parsed).Token),
                                      ![t].xbl = None,
                                      ![t].uhs = IF Unwrap(r.parsed).xui = <<>> THEN @
                                                 ELSE Some(Head(Unwrap(r.parsed).xui))]
                /\ UNCHANGED res
    /\ UNCHANGED <<pending_auth, lock, store, op, arg, resp, snap>>
    /\ UNCHANGED <<launcherVars, javaVars>>

\* xsts_res ... UserTokens: [xbox_res.token]
Hop2(t) ==
    /\ pc[t] = "hop2"
    /\ sent' = [sent EXCEPT ![t] =
                 Append(@, [ep |-> "xsts", with |-> <<Unwrap(loc[t].xbl)>>])]
    /\ \E r \in HopResponses(XboxLiveAuthResponse(XstsToks)) :
        /\ seen' = [seen EXCEPT ![t].refused = @ \/ Refusal(r)]
        /\ IF ~r.net THEN ChainFail(t, "XSTS auth failed")
           ELSE IF ~IsSome(r.parsed) THEN ChainFail(t, "XSTS response parse failed")
           ELSE /\ pc' = [pc EXCEPT ![t] = "hop3"]
                /\ loc' = [loc EXCEPT ![t].xsts = Some(Unwrap(r.parsed).Token),
                                      ![t].xbl = None]
                /\ UNCHANGED res
    /\ UNCHANGED <<pending_auth, lock, store, op, arg, resp, snap>>
    /\ UNCHANGED <<launcherVars, javaVars>>

\* Faulty variant: a refresh persists the new game token under the requested
\* account as soon as the login answers, before the profile is fetched.
Hop3PersistingEarly(t) ==
    /\ pc[t] = "hop3"
    /\ sent' = [sent EXCEPT ![t] =
                 Append(@, [ep |-> "login_with_xbox",
                            with |-> <<Unwrap(loc[t].uhs), Unwrap(loc[t].xsts)>>])]
    /\ \E r \in HopResponses(MinecraftAuthResponse) :
        /\ seen' = [seen EXCEPT ![t].mc = r.parsed, ![t].refused = @ \/ Refusal(r)]
        /\ IF ~r.net
           THEN ChainFail(t, "Minecraft auth failed") /\ UNCHANGED store
           ELSE IF ~IsSome(r.parsed)
           THEN ChainFail(t, "Minecraft auth response parse failed") /\ UNCHANGED store
           ELSE
             /\ pc' = [pc EXCEPT ![t] = "hop4"]
             /\ loc' = [loc EXCEPT ![t].mc = Some(Unwrap(r.parsed).access_token),
                                   ![t].uhs = None, ![t].xsts = None]
             /\ store' = IF arg[t] \in ProfileIds
                         THEN [store EXCEPT ![McKey(arg[t])] =
                                 Some(Unwrap(r.parsed).access_token)]
                         ELSE store
             /\ UNCHANGED res
    /\ UNCHANGED <<pending_auth, lock, op, arg, resp, snap>>
    /\ UNCHANGED <<launcherVars, javaVars>>

\* mc_auth_res ... identityToken: "XBL3.0 x={uhs};{xsts_res.token}"
Hop3(t) ==
    /\ pc[t] = "hop3"
    /\ sent' = [sent EXCEPT ![t] =
                 Append(@, [ep |-> "login_with_xbox",
                            with |-> <<Unwrap(loc[t].uhs), Unwrap(loc[t].xsts)>>])]
    /\ \E r \in HopResponses(MinecraftAuthResponse) :
        /\ seen' = [seen EXCEPT ![t].mc = r.parsed, ![t].refused = @ \/ Refusal(r)]
        /\ IF ~r.net THEN ChainFail(t, "Minecraft auth failed")
           ELSE IF ~IsSome(r.parsed) THEN ChainFail(t, "Minecraft auth response parse failed")
           ELSE
             /\ pc' = [pc EXCEPT ![t] = "hop4"]
             /\ loc' = [loc EXCEPT ![t].mc = Some(Unwrap(r.parsed).access_token),
                                   ![t].uhs = None, ![t].xsts = None]
             /\ UNCHANGED res
    /\ UNCHANGED <<pending_auth, lock, store, op, arg, resp, snap>>
    /\ UNCHANGED <<launcherVars, javaVars>>

\* profile ... .bearer_auth(&mc_auth_res.access_token)
Hop4(t) ==
    /\ pc[t] = "hop4"
    /\ sent' = [sent EXCEPT ![t] =
                 Append(@, [ep |-> "profile", with |-> <<Unwrap(loc[t].mc)>>])]
    /\ \E r \in HopResponses(MinecraftProfile) :
        /\ seen' = [seen EXCEPT ![t].profile = r.parsed, ![t].refused = @ \/ Refusal(r)]
        /\ IF ~r.net THEN ChainFail(t, "Minecraft profile fetch failed")
           ELSE IF ~IsSome(r.parsed) THEN ChainFail(t, "Minecraft profile parse failed")
           ELSE
             /\ pc' = [pc EXCEPT ![t] = "set1"]
             /\ loc' = [loc EXCEPT ![t].profile = r.parsed]
             /\ UNCHANGED res
    /\ UNCHANGED <<pending_auth, lock, store, op, arg, resp, snap>>
    /\ UNCHANGED <<launcherVars, javaVars>>

\* Faulty variant: the entry is addressed by the service name alone, so a
\* write lands on every entry.
KeyringSetClobbering(t, key, value, next) ==
    \E accepted \in BOOLEAN :
        IF accepted
        THEN /\ store' = [k \in Keys |-> Some(value)]
             /\ next
        ELSE /\ store' = store
             /\ ChainFail(t, "keyring set")

\* keyring_set(key, value): the entry is written, or the keyring refuses
\* and keeps what it had.
KeyringSet(t, key, value, next) ==
    \E accepted \in BOOLEAN :
        IF accepted
        THEN /\ store' = [store EXCEPT ![key] = Some(value)]
             /\ next
        ELSE /\ store' = store
             /\ ChainFail(t, "keyring set")

\* Faulty variant: a refresh writes the game token under the account it was
\* asked to refresh instead of the profile it fetched.
Set1UnderRequestedId(t) ==
    /\ pc[t] = "set1"
    /\ KeyringSet(t, McKey(IF arg[t] \in ProfileIds THEN arg[t]
                                                   ELSE Unwrap(loc[t].profile).id),
                  Unwrap(loc[t].mc),
                  /\ pc' = [pc EXCEPT ![t] = "set2"]
                  /\ UNCHANGED <<loc, res>>)
    /\ UNCHANGED <<pending_auth, lock, op, arg, sent, resp, snap, seen>>
    /\ UNCHANGED <<launcherVars, javaVars>>

\* Faulty variant: the bearer access token of the identity provider is stored
\* as the game token.
Set1StoringBearerToken(t) ==
    /\ pc[t] = "set1"
    /\ KeyringSet(t, McKey(Unwrap(loc[t].profile).id), Unwrap(loc[t].token).access_token,
                  /\ pc' = [pc EXCEPT ![t] = "set2"]
                  /\ UNCHANGED <<loc, res>>)
    /\ UNCHANGED <<pending_auth, lock, op, arg, sent, resp, snap, seen>>
    /\ UNCHANGED <<launcherVars, javaVars>>

\* keyring_set(&format!("mc_access_token_{}", profile.id), &mc_auth_res.access_token)?
Set1(t) ==
    /\ pc[t] = "set1"
    /\ KeyringSet(t, McKey(Unwrap(loc[t].profile).id), Unwrap(loc[t].mc),
                  /\ pc' = [pc EXCEPT ![t] = "set2"]
                  /\ UNCHANGED <<loc, res>>)
    /\ UNCHANGED <<pending_auth, lock, op, arg, sent, resp, snap, seen>>
    /\ UNCHANGED <<launcherVars, javaVars>>

\* Faulty variant: the bearer access token is stored in place of the refresh
\* token.
Set2StoringAccessToken(t) ==
    /\ pc[t] = "set2"
    /\ KeyringSet(t, MsKey(Unwrap(loc[t].profile).id), Unwrap(loc[t].token).access_token,
                  LET account == LauncherAccount(Unwrap(loc[t].profile)) IN
                  IF op[t] = "poll"
                  THEN /\ pc' = [pc EXCEPT ![t] = "poll_clear_lock"]
                       /\ loc' = [loc EXCEPT ![t] =
                                    [NoLoc EXCEPT !.out =
                                       Some(MSAuthStatus("complete", Some(account), None))]]
                       /\ UNCHANGED res
                  ELSE Finish(t, Ok(Some(account))))
    /\ UNCHANGED <<pending_auth, lock, op, arg, sent, resp, snap, seen>>
    /\ UNCHANGED <<launcherVars, javaVars>>

\* keyring_set(&format!("ms_refresh_token_{}", profile.id), &token.refresh_token)?
\* and Ok(LauncherAccount {..}) back to the caller of the chain
Set2(t) ==
    /\ pc[t] = "set2"
    /\ KeyringSet(t, MsKey(Unwrap(loc[t].profile).id), Unwrap(loc[t].token).refresh_token,
                  LET account == LauncherAccount(Unwrap(loc[t].profile)) IN
                  IF op[t] = "poll"
                  THEN /\ pc' = [pc EXCEPT ![t] = "poll_clear_lock"]
                       /\ loc' = [loc EXCEPT ![t] =
                                    [NoLoc EXCEPT !.out =
                                       Some(MSAuthStatus("complete", Some(account), None))]]
                       /\ UNCHANGED res
                  ELSE Finish(t, Ok(Some(account))))
    /\ UNCHANGED <<pending_auth, lock, op, arg, sent, resp, snap, seen>>
    /\ UNCHANGED <<launcherVars, javaVars>>

\* ---------------------------------------------------- ms_auth_refresh
\* keyring_get(key): the stored secret, or an error when the entry is
\* absent or the keyring cannot be read.
KeyringGet(key) == {store[key], None}

RefreshResponses ==
    {NetErr}
    \cup {HttpResp(s, FALSE, None, None, None) : s \in DeviceStatuses}
    \cup {HttpResp(s, TRUE, None, k, None) :
            s \in DeviceStatuses, k \in Option(TokenResponse)}

\* Faulty variant: a refresh that finds no refresh token also drops the game
\* token of the account.
RefreshGetDroppingGameToken(t) ==
    /\ \E id \in ProfileIds :
        /\ Begin(t, "refresh", id)
        /\ \E got \in KeyringGet(MsKey(id)) :
            IF IsSome(got)
            THEN /\ pc' = [pc EXCEPT ![t] = "refresh_wait"]
                 /\ sent' = [sent EXCEPT ![t] =
                              << [ep |-> "token_refresh", with |-> <<Unwrap(got)>>] >>]
                 /\ UNCHANGED <<res, loc, store>>
            ELSE /\ Finish(t, Err("keyring get"))
                 /\ store' = [store EXCEPT ![McKey(id)] = None]
                 /\ UNCHANGED sent
    /\ UNCHANGED <<pending_auth, lock, resp, seen>>
    /\ UNCHANGED <<launcherVars, javaVars>>

\* keyring_get(&format!("ms_refresh_token_{account_uuid}"))? and the
\* refresh_token grant sent to the token endpoint
RefreshGet(t) ==
    /\ \E id \in ProfileIds :
        /\ Begin(t, "refresh", id)
        /\ \E got \in KeyringGet(MsKey(id)) :
            IF IsSome(got)
            THEN /\ pc' = [pc EXCEPT ![t] = "refresh_wait"]
                 /\ sent' = [sent EXCEPT ![t] =
                              << [ep |-> "token_refresh", with |-> <<Unwrap(got)>>] >>]
                 /\ UNCHANGED <<res, loc>>
            ELSE /\ Finish(t, Err("keyring get"))
                 /\ UNCHANGED sent
    /\ UNCHANGED <<pending_auth, lock, store, resp, seen>>
    /\ UNCHANGED <<launcherVars, javaVars>>

RefreshOutcome(r) ==
    IF ~r.net THEN "refresh token request failed"
    ELSE IF ~IsSuccess(r.status) THEN "refresh token exchange failed"
    ELSE IF ~IsSome(ParseToken(r)) THEN "failed to parse refresh response"
    ELSE ""

RefreshRecv(t) ==
    /\ pc[t] = "refresh_wait"
    /\ \E r \in RefreshResponses :
        /\ resp' = [resp EXCEPT ![t] = r]
        /\ IF RefreshOutcome(r) # ""
           THEN Finish(t, Err(RefreshOutcome(r)))
           ELSE /\ pc' = [pc EXCEPT ![t] = "hop1"]
                /\ loc' = [loc EXCEPT ![t].token = ParseToken(r)]
                /\ UNCHANGED res
    /\ UNCHANGED <<pending_auth, lock, store, op, arg, sent, snap, seen>>
    /\ UNCHANGED <<launcherVars, javaVars>>

\* ------------------------------------------------ get_mc_access_token
\* Faulty variant: a successful read consumes the entry.
GetTokenConsuming(t) ==
    /\ \E id \in ProfileIds :
        /\ Begin(t, "get_token", id)
        /\ \E got \in KeyringGet(McKey(id)) :
            IF IsSome(got)
            THEN Finish(t, Ok(got)) /\ store' = [store EXCEPT ![McKey(id)] = None]
            ELSE Finish(t, Err("keyring get")) /\ UNCHANGED store
    /\ UNCHANGED <<pending_auth, lock, sent, resp, seen>>
    /\ UNCHANGED <<launcherVars, javaVars>>

\* keyring_get(&format!("mc_access_token_{account_uuid}"))
GetToken(t) ==
    /\ \E id \in ProfileIds :
        /\ Begin(t, "get_token", id)
        /\ \E got \in KeyringGet(McKey(id)) :
            IF IsSome(got) THEN Finish(t, Ok(got)) ELSE Finish(t, Err("keyring get"))
    /\ UNCHANGED <<pending_auth, lock, store, sent, resp, seen>>
    /\ UNCHANGED <<launcherVars, javaVars>>

\* ----------------------------------------------------- remove_account
\* entry.delete_credential(): what the keyring answers for the entry
KeyringDeleteOutcomes(key) ==
    IF IsSome(store[key]) THEN {"Ok", "PlatformFailure"} ELSE {"NoEntry", "PlatformFailure"}

\* Faulty variant: NoEntry is passed on as an error like any other.
DeleteResultStrict(outcome) ==
    IF outcome = "Ok" THEN ""
    ELSE IF outcome = "NoEntry" THEN "keyring delete: NoEntry"
    ELSE "keyring delete: PlatformFailure"

\* The match on the outcome: "" for Ok(()), else format!("keyring delete: {e}")
DeleteResult(outcome) ==
    IF outcome \in {"Ok", "NoEntry"} THEN "" ELSE "keyring delete: PlatformFailure"

\* keyring_delete(key): Ok when the entry is deleted or was absent
\* (NoEntry), Err on any other keyring failure, which deletes nothing.
KeyringDelete(t, key, next) ==
    \E outcome \in KeyringDeleteOutcomes(key) :
        IF DeleteResult(outcome) = ""
        THEN /\ store' = [store EXCEPT ![key] = None]
             /\ next
        ELSE /\ store' = store
             /\ Finish(t, Err(DeleteResult(outcome)))

\* keyring_delete(&format!("mc_access_token_{account_uuid}"))?
Remove1(t) ==
    /\ \E id \in ProfileIds :
        /\ Begin(t, "remove", id)
        /\ KeyringDelete(t, McKey(id),
                         /\ pc' = [pc EXCEPT ![t] = "remove2"]
                         /\ UNCHANGED <<loc, res>>)
    /\ UNCHANGED <<pending_auth, lock, sent, resp, seen>>
    /\ UNCHANGED <<launcherVars, javaVars>>

\* keyring_delete(&format!("ms_refresh_token_{account_uuid}"))?; Ok(())
Remove2(t) ==
    /\ pc[t] = "remove2"
    /\ KeyringDelete(t, MsKey(arg[t]), Finish(t, Ok(None)))
    /\ UNCHANGED <<pending_auth, lock, op, arg, sent, resp, snap, seen>>
    /\ UNCHANGED <<launcherVars, javaVars>>

\* ------------------------------------------------------ specification
Step(t) ==
    \/ StartSend(t) \/ StartRecv(t) \/ StartLock(t) \/ StartStore(t)
    \/ PollLock(t) \/ PollRead(t) \/ PollSend(t) \/ PollRecv(t)
    \/ PollClearLock(t) \/ PollClear(t)
    \/ Hop1(t) \/ Hop2(t) \/ Hop3(t) \/ Hop4(t) \/ Set1(t) \/ Set2(t)
    \/ RefreshGet(t) \/ RefreshRecv(t)
    \/ GetToken(t)
    \/ Remove1(t) \/ Remove2(t)
    \/ Return(t)

\* Commands run on a multi-threaded executor: any task may take the next step.
Next == \E t \in Tasks : Step(t)

Spec == Init /\ [][Next]_vars

\* One command at a time: each command runs to its return before the next
\* is invoked, so a single invoker stands for every serial caller.
Invoker == CHOOSE t \in Tasks : \A u \in Tasks : t <= u

SerialNext == Step(Invoker)

SerialSpec == Init /\ [][SerialNext]_vars

\* The commands that share the pending-session slot, invoked concurrently.
\* The steps of the chain touch neither the slot nor its lock and are left
\* to SerialSpec: here a poll that received its tokens stays in its chain.
SessionStep(t) ==
    \/ StartSend(t) \/ StartRecv(t) \/ StartLock(t) \/ StartStore(t)
    \/ PollLock(t) \/ PollRead(t) \/ PollSend(t) \/ PollRecv(t)
    \/ PollClearLock(t) \/ PollClear(t)
    \/ Return(t)

ConcNext == \E t \in Tasks : SessionStep(t)

ConcSpec == Init /\ [][ConcNext]_vars

\* ------------------------------------------------------- launcher.rs
\* The launcher command returns r to its caller.
LFinish(t, r) ==
    /\ lpc' = [lpc EXCEPT ![t] = "ret"]
    /\ lres' = [lres EXCEPT ![t] = r]

\* The caller takes the result; the task may run another command.
LReturn(t) ==
    /\ lpc[t] = "ret"
    /\ lpc' = [lpc EXCEPT ![t] = "idle"]
    /\ lreq' = [lreq EXCEPT ![t] = NoReq]
    /\ lres' = [lres EXCEPT ![t] = NoRes]
    /\ UNCHANGED <<running_games, procs>>
    /\ UNCHANGED <<authVars, javaVars>>

\* running.iter().any(|g| g.instance_id == instance_id)
IsRunning(games, instance_id) ==
    \E k \in 1..Len(games) : games[k].instance_id = instance_id

\* running.retain(|g| g.instance_id != instance_id)
Retain(games, instance_id) ==
    LET Keep(g) == g.instance_id # instance_id IN SelectSeq(games, Keep)

\* running.iter().find(|g| g.instance_id == instance_id)
Find(games, instance_id) ==
    games[CHOOSE k \in 1..Len(games) :
            /\ games[k].instance_id = instance_id
            /\ \A j \in 1..(k - 1) : games[j].instance_id # instance_id]

\* launch_game: the already-running test under the guard, which drops at
\* the block's end
LaunchCheck(t) ==
    /\ lpc[t] = "idle"
    /\ \E i \in InstanceIds, a \in ProfileIds :
        /\ lreq' = [lreq EXCEPT ![t] =
                      [cmd |-> "launch", instance_id |-> i, account_id |-> a,
                       pid |-> NoPid, had |-> IsRunning(running_games, i)]]
        /\ IF IsRunning(running_games, i)
           THEN LFinish(t, Err("Game is already running for this instance"))
           ELSE /\ lpc' = [lpc EXCEPT ![t] = "launch_prepare"]
                /\ UNCHANGED lres
    /\ UNCHANGED <<running_games, procs>>
    /\ UNCHANGED <<authVars, javaVars>>

\* What can stop launch_game before, and after, it reads the game token:
\* every `?` on the way returns at once and touches nothing, so the first
\* and the last of each stretch stand for the others.
FailuresBeforeToken == {"Failed to fetch instance"}
FailuresAfterToken == {"Failed to fetch account", "Failed to spawn Minecraft process"}

\* The pid the next spawn gets.
FreePids == {p \in Pids : procs[p] = NoProc}
NextPid == CHOOSE p \in FreePids : \A q \in FreePids : p <= q

\* launch_game from the instance fetch to Command::spawn()
LaunchPrepare(t) ==
    /\ lpc[t] = "launch_prepare"
    /\ \/ /\ \E e \in FailuresBeforeToken : LFinish(t, Err(e))
          /\ UNCHANGED <<lreq, procs>>
       \/ \E got \in KeyringGet(McKey(lreq[t].account_id)) :
            IF ~IsSome(got)
            THEN LFinish(t, Err("keyring get")) /\ UNCHANGED <<lreq, procs>>
            ELSE \/ /\ \E e \in FailuresAfterToken : LFinish(t, Err(e))
                    /\ UNCHANGED <<lreq, procs>>
                 \/ /\ FreePids # {}
                    /\ procs' = [procs EXCEPT ![NextPid] =
                                   [instance_id |-> lreq[t].instance_id,
                                    alive |-> TRUE, watcher |-> "none"]]
                    /\ lreq' = [lreq EXCEPT ![t].pid = NextPid]
                    /\ lpc' = [lpc EXCEPT ![t] = "launch_push"]
                    /\ UNCHANGED lres
    /\ UNCHANGED running_games
    /\ UNCHANGED <<authVars, javaVars>>

\* running_games.lock().unwrap().push(process.clone()), the exit watcher
\* handed to spawn_blocking, and Ok(process)
LaunchPush(t) ==
    /\ lpc[t] = "launch_push"
    /\ running_games' =
         Append(running_games, GameProcess(lreq[t].instance_id, lreq[t].pid))
    /\ procs' = [procs EXCEPT ![lreq[t].pid].watcher = "waiting"]
    /\ LFinish(t, Ok(Some(GameProcess(lreq[t].instance_id, lreq[t].pid))))
    /\ UNCHANGED lreq
    /\ UNCHANGED <<authVars, javaVars>>

\* get_running_games
GetRunningGames(t) ==
    /\ lpc[t] = "idle"
    /\ lreq' = [lreq EXCEPT ![t] = [NoReq EXCEPT !.cmd = "list"]]
    /\ LFinish(t, Ok(Some(running_games)))
    /\ UNCHANGED <<running_games, procs>>
    /\ UNCHANGED <<authVars, javaVars>>

\* kill_game: find the entry and run kill on its pid, all under one guard
KillFind(t) ==
    /\ lpc[t] = "idle"
    /\ \E i \in InstanceIds :
        IF ~IsRunning(running_games, i)
        THEN /\ lreq' = [lreq EXCEPT ![t] = [NoReq EXCEPT !.cmd = "kill", !.instance_id = i]]
             /\ LFinish(t, Err("No running game found for this instance"))
        ELSE /\ lreq' = [lreq EXCEPT ![t] =
                           [NoReq EXCEPT !.cmd = "kill", !.instance_id = i, !.had = TRUE,
                                         !.pid = Find(running_games, i).pid]]
             /\ \E ran \in BOOLEAN :
                  IF ran
                  THEN lpc' = [lpc EXCEPT ![t] = "kill_retain"] /\ UNCHANGED lres
                  ELSE LFinish(t, Err("kill"))
    /\ UNCHANGED <<running_games, procs>>
    /\ UNCHANGED <<authVars, javaVars>>

\* kill_game: the second guard, retain and Ok(())
KillRetain(t) ==
    /\ lpc[t] = "kill_retain"
    /\ running_games' = Retain(running_games, lreq[t].instance_id)
    /\ LFinish(t, Ok(None))
    /\ UNCHANGED <<lreq, procs>>
    /\ UNCHANGED <<authVars, javaVars>>

\* The game process ends, by itself or by the signal kill_game sent.
ProcessExit(p) ==
    /\ procs[p].alive
    /\ procs' = [procs EXCEPT ![p].alive = FALSE]
    /\ UNCHANGED <<running_games, lpc, lreq, lres>>
    /\ UNCHANGED <<authVars, javaVars>>

\* The exit watcher: child.wait() returned, then retain by instance id
WatcherReap(p) ==
    /\ procs[p].watcher = "waiting"
    /\ ~procs[p].alive
    /\ running_games' = Retain(running_games, procs[p].instance_id)
    /\ procs' = [procs EXCEPT ![p].watcher = "done"]
    /\ UNCHANGED <<lpc, lreq, lres>>
    /\ UNCHANGED <<authVars, javaVars>>

LauncherStep(t) ==
    \/ LaunchCheck(t) \/ LaunchPrepare(t) \/ LaunchPush(t)
    \/ GetRunningGames(t)
    \/ KillFind(t) \/ KillRetain(t)
    \/ LReturn(t)

\* Launcher commands, game processes and exit watchers run concurrently.
LauncherNext ==
    \/ \E t \in Tasks : LauncherStep(t)
    \/ \E p \in Pids : ProcessExit(p) \/ WatcherReap(p)

LauncherSpec == SignedInInit /\ [][LauncherNext]_vars

\* ------------------------------------------------------------ java.rs
\* The characters of the output that decide the parse: the word "version"
\* (V), the double quote (Q), the dot, two digits and the line feed (N).
Chars == {"V", "Q", ".", "1", "8", "N"}
Digits == {"1", "8"}
Stderrs == UNION {[1..n -> Chars] : n \in 0..MaxLen}

\* str::split(sep): the pieces between the separators, one more than there
\* are separators.
RECURSIVE SplitOn(_, _)
SplitOn(s, sep) ==
    IF \A i \in 1..Len(s) : s[i] # sep
    THEN <<s>>
    ELSE LET k == CHOOSE i \in 1..Len(s) :
                    s[i] = sep /\ \A j \in 1..(i - 1) : s[j] # sep
         IN <<SubSeq(s, 1, k - 1)>> \o SplitOn(SubSeq(s, k + 1, Len(s)), sep)

\* str::lines(): split at line feeds, a final empty piece dropped.
Lines(s) ==
    LET pieces == SplitOn(s, "N") IN
    IF pieces[Len(pieces)] = <<>> THEN SubSeq(pieces, 1, Len(pieces) - 1) ELSE pieces

\* line.contains("version")
ContainsVersion(line) == \E i \in 1..Len(line) : line[i] = "V"

\* Iterator::nth(n), counting from 0.
Nth(pieces, n) == IF Len(pieces) > n THEN Some(pieces[n + 1]) ELSE None

\* The decimal value of a string of digits.
RECURSIVE DecimalValue(_)
DecimalValue(c) ==
    IF c = <<>> THEN 0
    ELSE 10 * DecimalValue(SubSeq(c, 1, Len(c) - 1))
         + (IF c[Len(c)] = "1" THEN 1 ELSE 8)

\* str::parse::<u32>().ok(): a string of at most MaxLen digits is below
\* 2^32, so the parse fails only on an empty string or a non-digit.
ParseU32(c) ==
    IF c = <<>> \/ \E i \in 1..Len(c) : c[i] \notin Digits THEN None
    ELSE Some(DecimalValue(c))

\* full_version.starts_with("1.")
StartsWithOneDot(v) == Len(v) >= 2 /\ v[1] = "1" /\ v[2] = "."

\* Faulty variant: the legacy "1.x" form is not recognised.
ParseJavaVersionModernOnly(s) ==
    LET lines == Lines(s)
        found == {i \in 1..Len(lines) : ContainsVersion(lines[i])}
    IN
    IF found = {} THEN None
    ELSE LET line == lines[CHOOSE i \in found : \A j \in found : i <= j]
             full_version == Nth(SplitOn(line, "Q"), 1)
         IN
         IF ~IsSome(full_version) THEN None
         ELSE LET major == ParseU32(Unwrap(Nth(SplitOn(Unwrap(full_version), "."), 0)))
              IN IF ~IsSome(major) THEN None
                 ELSE Some([major |-> Unwrap(major), full_version |-> Unwrap(full_version)])

\* parse_java_version: the major version and the full version string.  The
\* vendor, looked up in the whole output by name, is left out.
ParseJavaVersion(s) ==
    LET lines == Lines(s)
        found == {i \in 1..Len(lines) : ContainsVersion(lines[i])}
    IN
    IF found = {} THEN None
    ELSE LET line == lines[CHOOSE i \in found : \A j \in found : i <= j]
             full_version == Nth(SplitOn(line, "Q"), 1)
         IN
         IF ~IsSome(full_version) THEN None
         ELSE LET component ==
                      IF StartsWithOneDot(Unwrap(full_version))
                      THEN Nth(SplitOn(Unwrap(full_version), "."), 1)
                      ELSE Nth(SplitOn(Unwrap(full_version), "."), 0)
                  major == IF IsSome(component) THEN ParseU32(Unwrap(component)) ELSE None
              IN IF ~IsSome(major) THEN None
                 ELSE Some([major |-> Unwrap(major), full_version |-> Unwrap(full_version)])

\* detect_java_at_path: Command::new(path).arg("-version").output()
DetectRun ==
    /\ jpc = "idle"
    /\ \E s \in Stderrs : stderr' = s
    /\ jpc' = "parse"
    /\ UNCHANGED jres
    /\ UNCHANGED <<authVars, launcherVars>>

\* detect_java_at_path: parse_java_version(&stderr)
DetectParse ==
    /\ jpc = "parse"
    /\ jres' = Some(ParseJavaVersion(stderr))
    /\ jpc' = "done"
    /\ UNCHANGED stderr
    /\ UNCHANGED <<authVars, launcherVars>>

JavaNext == DetectRun \/ DetectParse

JavaSpec == Init /\ [][JavaNext]_vars

\* ------------------------------------------------------------ typing
TypeOK ==
    /\ pending_auth \in Option(DeviceCodeResponse)
    /\ lock \in Tasks \cup {NoTask}
    /\ store \in [Keys -> Option(McToks \cup RefreshToks)]
    /\ \A t \in Tasks : op[t] \in {"", "start", "poll", "refresh", "get_token", "remove"}

\* ------------------------------------------------- what a poll received
Returned(t, name) == pc[t] = "ret" /\ op[t] = name

\* The token endpoint answered 400 with a JSON body whose error member is e.
Got400(t, e) ==
    resp[t].net /\ resp[t].status = 400 /\ resp[t].json /\ resp[t].error = e

\* The token endpoint answered with the members of a TokenResponse, and the
\* poll took them for tokens (any status but 400).
GotTokens(t) ==
    resp[t].net /\ resp[t].status # 400 /\ resp[t].json /\ IsSome(resp[t].tok)

\* The body does not parse: not JSON, or (outside 400) no token members.
GotUnparsable(t) ==
    resp[t].net /\ (~resp[t].json \/ (resp[t].status # 400 /\ ~IsSome(resp[t].tok)))

\* A status that is neither a success nor the handled 400.
GotOtherStatus(t) ==
    resp[t].net /\ resp[t].status # 400 /\ ~IsSuccess(resp[t].status)

\* The command reached complete_auth_chain: hop 1 is the chain's first request.
ChainInvoked(t) == \E i \in 1..Len(sent[t]) : sent[t][i].ep = "xbl"

\* ------------------------------------------------------------- claims

\* C1: when complete_auth_chain fails at any step (a hop or either keyring
\* write), the secret store is exactly as it was before the command; in
\* particular mc_access_token_<id> is never left written without
\* ms_refresh_token_<id>.
C1_ChainFailureLeavesStore ==
    \A t \in Tasks :
        (pc[t] = "ret" /\ op[t] \in {"poll", "refresh"} /\ ChainInvoked(t) /\ ~res[t].ok)
        => store = snap[t].store

\* C2: when a poll obtained tokens and the chain then failed, the pending
\* session is cleared once the poll has returned.
C2_ChainFailureClearsPending ==
    \A t \in Tasks :
        (Returned(t, "poll") /\ GotTokens(t) /\ ~res[t].ok)
        => pending_auth = None

\* C3: a token-poll response with a non-success status other than 400, or
\* with a body that cannot be parsed, makes the poll fail hard and clears the
\* pending session.
C3_ProtocolErrorClearsPending ==
    \A t \in Tasks :
        (Returned(t, "poll") /\ (GotOtherStatus(t) \/ GotUnparsable(t)))
        => (~res[t].ok /\ pending_auth = None)

\* C4: whenever start_auth fails, no pending session exists afterwards,
\* whether or not one existed before the call.
C4_FailedStartLeavesNoPending ==
    \A t \in Tasks :
        (Returned(t, "start") /\ ~res[t].ok) => pending_auth = None

\* C5: a poll answered 400 authorization_pending returns Ok with status
\* "pending", no account and no error, and leaves the pending session as it
\* was (still present), so the next poll finds a session again; a poll that
\* finds a session never fails with "No pending auth".
C5_PendingPollReturnsPending ==
    \A t \in Tasks :
        (Returned(t, "poll") /\ Got400(t, Some("authorization_pending")))
        => /\ res[t] = Ok(Some(MSAuthStatus("pending", None, None)))
           /\ IsSome(pending_auth)
           /\ pending_auth = snap[t].pending
           /\ store = snap[t].store

\* C5 (whole claim): the above in every state, and a poll that reads a
\* session from the slot goes on to send its request.
C5_PendingPollKeepsSession ==
    /\ []C5_PendingPollReturnsPending
    /\ [][\A t \in Tasks :
            (pc[t] = "poll_read" /\ IsSome(pending_auth) /\ pc'[t] # "poll_read")
            => pc'[t] = "poll_send"]_vars

C5_Witness ==
    \E t \in Tasks :
        /\ Returned(t, "poll") /\ Got400(t, Some("authorization_pending"))
        /\ res[t].ok /\ IsSome(pending_auth)

\* C6: a poll answered 400 expired_token returns status "expired" and clears
\* the pending session; the slot is filled again only by a successful
\* start_auth, and a poll that finds it empty fails with "No pending auth".
C6_ExpiredPollReturnsExpired ==
    \A t \in Tasks :
        (Returned(t, "poll") /\ Got400(t, Some("expired_token")))
        => /\ res[t].ok
           /\ Unwrap(res[t].val).status = "expired"
           /\ pending_auth = None

\* C6 (whole claim): the above in every state; the empty slot is filled only
\* by a start_auth that returns Ok; a poll reading an empty slot returns
\* "No pending auth".
C6_ExpiredPollClearsSession ==
    /\ []C6_ExpiredPollReturnsExpired
    /\ [][(pending_auth = None /\ pending_auth' # None)
            => \E t \in Tasks : op[t] = "start" /\ pc'[t] = "ret" /\ res'[t].ok]_vars
    /\ [][\A t \in Tasks :
            (pc[t] = "poll_read" /\ pending_auth = None /\ pc'[t] # "poll_read")
            => (pc'[t] = "ret" /\ res'[t] = Err("No pending auth"))]_vars

C6_Witness ==
    \E t \in Tasks :
        /\ Returned(t, "poll") /\ Got400(t, Some("expired_token"))
        /\ IsSome(snap[t].pending) /\ pending_auth = None

\* C7: a poll called while the slot is empty fails with "No pending auth",
\* has issued no request, and leaves the slot and the secret store as they
\* were.
C7_PollWithoutSession ==
    \A t \in Tasks :
        (Returned(t, "poll") /\ snap[t].pending = None)
        => /\ res[t] = Err("No pending auth")
           /\ sent[t] = <<>>
           /\ pending_auth = None
           /\ store = snap[t].store

C7_Witness ==
    \E t \in Tasks :
        /\ Returned(t, "poll") /\ snap[t].pending = None
        /\ res[t].err = "No pending auth"
        /\ \E k \in Keys : IsSome(store[k])

\* C8: a successful start_auth stores the session the provider issued as the
\* pending session, replacing any earlier one, and returns exactly what it
\* stored; a poll sends the device code of the session now pending.
C8_StartStoresSession ==
    \A t \in Tasks :
        /\ (Returned(t, "start") /\ res[t].ok)
            => /\ IsSome(resp[t].dc)
               /\ pending_auth = resp[t].dc
               /\ res[t].val = pending_auth
        /\ pc[t] = "poll_wait"
            => /\ IsSome(pending_auth)
               /\ sent[t] = << [ep |-> "token",
                                with |-> <<Unwrap(pending_auth).device_code>>] >>

C8_Witness ==
    \E t \in Tasks :
        /\ Returned(t, "start") /\ res[t].ok
        /\ IsSome(snap[t].pending)
        /\ snap[t].pending # pending_auth

\* C9: when a poll obtained tokens and the chain succeeded, the poll returns
\* status "complete" with the account of the chain and no error, and the
\* pending session is cleared.
C9_CompleteClearsSession ==
    \A t \in Tasks :
        (Returned(t, "poll") /\ GotTokens(t) /\ res[t].ok)
        => /\ Unwrap(res[t].val).status = "complete"
           /\ Unwrap(res[t].val).error = None
           /\ IsSome(Unwrap(res[t].val).account)
           /\ LET account == Unwrap(Unwrap(res[t].val).account) IN
                /\ account.uuid \in ProfileIds
                /\ IsSome(store[McKey(account.uuid)])
                /\ store[MsKey(account.uuid)] = Some(Unwrap(resp[t].tok).refresh_token)
           /\ pending_auth = None

C9_Witness ==
    \E t \in Tasks :
        /\ Returned(t, "poll") /\ GotTokens(t) /\ res[t].ok
        /\ IsSome(snap[t].pending)

\* C10: a poll answered 400 with any other error code, or with a JSON body
\* that has no string error member, clears the pending session and returns
\* status "error" whose text carries the provider's code ("unknown" when the
\* body names none).
C10_OtherErrorClearsSession ==
    \A t \in Tasks :
        (Returned(t, "poll") /\ resp[t].net /\ resp[t].status = 400 /\ resp[t].json
            /\ resp[t].error \notin {Some("authorization_pending"), Some("expired_token")})
        => /\ res[t].ok
           /\ Unwrap(res[t].val).status = "error"
           /\ Unwrap(res[t].val).account = None
           /\ Unwrap(res[t].val).error =
                Some(<<"Auth error: ",
                       IF resp[t].error = None THEN "unknown" ELSE Unwrap(resp[t].error)>>)
           /\ pending_auth = None

C10_Witness ==
    \E t \in Tasks :
        /\ Returned(t, "poll") /\ Got400(t, Some("access_denied"))
        /\ Unwrap(res[t].val).status = "error"
        /\ IsSome(snap[t].pending) /\ pending_auth = None

\* ----------------------------------------------- what a chain went through
\* The command ran the chain and one of its four hops failed: the chain
\* returned an error without a profile from hop 4.
HopFailed(t) ==
    /\ pc[t] = "ret" /\ op[t] \in {"poll", "refresh"}
    /\ ChainInvoked(t) /\ ~res[t].ok /\ ~IsSome(seen[t].profile)

\* The command ran the chain to its Ok.
ChainSucceeded(t) ==
    /\ pc[t] = "ret" /\ op[t] \in {"poll", "refresh"}
    /\ ChainInvoked(t) /\ res[t].ok

\* The LauncherAccount a successful chain handed back through the command.
AccountOf(t) ==
    IF op[t] = "poll" THEN Unwrap(Unwrap(res[t].val).account) ELSE Unwrap(res[t].val)

\* C11: when one of the four hops of the chain fails (hop 3 in particular),
\* the invocation performs no keyring write: the store is as it was.
C11_HopFailureLeavesStore ==
    \A t \in Tasks : HopFailed(t) => store = snap[t].store

C11_Witness ==
    \E t \in Tasks :
        /\ HopFailed(t)
        /\ sent[t][Len(sent[t])].ep = "login_with_xbox"
        /\ \E k \in Keys : IsSome(store[k])

\* C12: a successful chain returns an account whose uuid is the id of the
\* profile fetched in hop 4 and writes exactly two keys, both under that id:
\* the game access token of hop 3 and the refresh token of the input pair;
\* every other key is as it was.
C12_ChainWritesTwoKeys ==
    \A t \in Tasks :
        ChainSucceeded(t)
        => /\ IsSome(seen[t].profile) /\ IsSome(seen[t].mc)
           /\ LET id == Unwrap(seen[t].profile).id IN
                /\ AccountOf(t).uuid = id
                /\ store[McKey(id)] = Some(Unwrap(seen[t].mc).access_token)
                /\ store[MsKey(id)] = Some(Unwrap(resp[t].tok).refresh_token)
                /\ \A k \in Keys \ {McKey(id), MsKey(id)} : store[k] = snap[t].store[k]

C12_Witness ==
    \E t \in Tasks :
        /\ ChainSucceeded(t)
        /\ AccountOf(t).uuid = 2
        /\ IsSome(store[McKey(1)])
        /\ store[McKey(2)] # snap[t].store[McKey(2)]

\* C13: get_session_token(id) fails when no game token is stored under id
\* and otherwise returns the stored token; a game token of the store is
\* changed by nothing but a chain that succeeds or a remove_account of its
\* id, so the token a successful chain persisted is what a later get returns.
C13_GetReturnsPersistedToken ==
    \A t \in Tasks :
        /\ Returned(t, "get_token")
            => IF snap[t].store[McKey(arg[t])] = None
               THEN ~res[t].ok
               ELSE res[t].ok => res[t].val = snap[t].store[McKey(arg[t])]
        /\ (pc[t] = "ret" /\ ~ChainSucceeded(t))
            => \A id \in ProfileIds :
                 (op[t] = "remove" => id # arg[t])
                 => store[McKey(id)] = snap[t].store[McKey(id)]

\* C14: remove_account never fails because an entry is absent; when it
\* returns Ok both entries of the id are absent and every other entry is as
\* it was, so on an id without secrets, and on a second call in a row, the
\* store is unchanged and the result is the same Ok.
C14_RemoveIdempotent ==
    \A t \in Tasks :
        Returned(t, "remove")
        => /\ ~res[t].ok => res[t].err = "keyring delete: PlatformFailure"
           /\ res[t].ok
              => /\ res[t] = Ok(None)
                 /\ store[McKey(arg[t])] = None /\ store[MsKey(arg[t])] = None
                 /\ \A k \in Keys \ {McKey(arg[t]), MsKey(arg[t])} :
                      store[k] = snap[t].store[k]
           /\ (res[t].ok /\ snap[t].store[McKey(arg[t])] = None
                         /\ snap[t].store[MsKey(arg[t])] = None)
              => store = snap[t].store

C14_Witness ==
    \E t \in Tasks :
        /\ Returned(t, "remove") /\ res[t].ok /\ arg[t] = 1
        /\ snap[t].store[McKey(1)] = None /\ snap[t].store[MsKey(1)] = None
        /\ IsSome(store[McKey(2)])

\* C15: remove_account deletes the two secrets of the id together: when it
\* has returned, with Ok or with a deletion failure, it is never the case
\* that one of the two was removed while the other is still present, and
\* after Ok both are absent.
C15_RemoveDeletesBoth ==
    \A t \in Tasks :
        Returned(t, "remove")
        => LET mc == McKey(arg[t])
               ms == MsKey(arg[t])
               Removed(k) == IsSome(snap[t].store[k]) /\ store[k] = None
           IN /\ ~(Removed(mc) /\ IsSome(store[ms]))
              /\ ~(Removed(ms) /\ IsSome(store[mc]))
              /\ res[t].ok => (store[mc] = None /\ store[ms] = None)

\* C16: refresh_auth(id) with no refresh token stored under id fails at the
\* keyring read, before any request is sent, and leaves the store and the
\* pending session as they were.
C16_RefreshWithoutToken ==
    \A t \in Tasks :
        (Returned(t, "refresh") /\ snap[t].store[MsKey(arg[t])] = None)
        => /\ res[t] = Err("keyring get")
           /\ sent[t] = <<>>
           /\ store = snap[t].store
           /\ pending_auth = snap[t].pending

C16_Witness ==
    \E t \in Tasks :
        /\ Returned(t, "refresh") /\ snap[t].store[MsKey(arg[t])] = None
        /\ IsSome(store[McKey(arg[t])])
        /\ IsSome(pending_auth)

\* C17 as claimed: after a successful refresh_auth(id) the tokens stored
\* under the requested id are those of the new pair and the account's uuid
\* is the requested id.
C17_RefreshUnderRequestedId ==
    \A t \in Tasks :
        (Returned(t, "refresh") /\ res[t].ok)
        => /\ AccountOf(t).uuid = arg[t]
           /\ store[McKey(arg[t])] = Some(Unwrap(seen[t].mc).access_token)
           /\ store[MsKey(arg[t])] = Some(Unwrap(resp[t].tok).refresh_token)

\* C17, amended: after a successful refresh_auth(id) the tokens stored under
\* the profile id hop 4 answered are those of the new pair (old values
\* overwritten) and the account's uuid is that profile id; they are the
\* requested id's exactly when hop 4 answered the requested id, and otherwise
\* the requested id's entries are left as they were.
C17_RefreshUnderProfileId ==
    \A t \in Tasks :
        (Returned(t, "refresh") /\ res[t].ok)
        => LET id == Unwrap(seen[t].profile).id IN
           /\ AccountOf(t).uuid = id
           /\ store[McKey(id)] = Some(Unwrap(seen[t].mc).access_token)
           /\ store[MsKey(id)] = Some(Unwrap(resp[t].tok).refresh_token)
           /\ id # arg[t]
              => /\ store[McKey(arg[t])] = snap[t].store[McKey(arg[t])]
                 /\ store[MsKey(arg[t])] = snap[t].store[MsKey(arg[t])]

C17_Witness ==
    \E t \in Tasks :
        /\ Returned(t, "refresh") /\ res[t].ok
        /\ AccountOf(t).uuid = arg[t]
        /\ IsSome(snap[t].store[McKey(arg[t])])
        /\ store[McKey(arg[t])] # snap[t].store[McKey(arg[t])]
        /\ store[MsKey(arg[t])] # snap[t].store[MsKey(arg[t])]

\* C18: get_session_token refreshes nothing: whether it succeeds or fails it
\* has sent no request and the store and the pending session are as they
\* were.
C18_GetTokenReadsOnly ==
    \A t \in Tasks :
        Returned(t, "get_token")
        => /\ sent[t] = <<>>
           /\ store = snap[t].store
           /\ pending_auth = snap[t].pending

C18_Witness ==
    \E t \in Tasks :
        /\ Returned(t, "get_token") /\ res[t].ok
        /\ IsSome(pending_auth)
        /\ IsSome(store[MsKey(arg[t])])

\* C19 (reads): what a keyring read hands on is exactly the stored entry.
C19_GetReturnsStored ==
    \A t \in Tasks :
        /\ (Returned(t, "get_token") /\ res[t].ok)
            => (IsSome(res[t].val) /\ res[t].val = store[McKey(arg[t])])
        /\ pc[t] = "refresh_wait"
            => sent[t] = << [ep |-> "token_refresh",
                             with |-> <<Unwrap(store[MsKey(arg[t])])>>] >>

InFlight(t) == op[t] = "poll" /\ pc[t] = "poll_wait"

\* A poll has received its tokens and is in complete_auth_chain.
InChain(t) ==
    op[t] = "poll" /\ pc[t] \in {"hop1", "hop2", "hop3", "hop4", "set1", "set2"}

\* C20: no two concurrent polls both have a token request in flight, or both
\* run the chain, for the same device code.
C20_PollsMutuallyExcluded ==
    \A t, u \in Tasks :
        (t # u /\ loc[t].dc = loc[u].dc)
        => /\ ~(InFlight(t) /\ InFlight(u))
           /\ ~(InChain(t) /\ InChain(u))

\* The steps at which a command holds the pending_auth guard: none of them
\* sends or awaits a request.
LockSteps == {"start_store", "poll_read", "poll_clear"}

\* The steps at which a command has a request out and awaits the answer.
AwaitSteps == {"start_wait", "poll_wait", "refresh_wait"}

\* C21: the pending-session lock is held only at the in-memory steps, never
\* by a command that is about to send or is awaiting a request; a poll's
\* request carries the device code of the copy it took under the lock, which
\* is the session that was pending when it locked.
C21_LockNotHeldAcrossNetwork ==
    /\ lock # NoTask => pc[lock] \in LockSteps
    /\ \A t \in Tasks :
        /\ pc[t] \in AwaitSteps \cup {"poll_send"} \/ InChain(t) => lock # t
        /\ pc[t] \in {"poll_send", "poll_wait"} => loc[t].dc = snap[t].pending
        /\ InFlight(t) =>
             sent[t] = << [ep |-> "token", with |-> <<Unwrap(loc[t].dc).device_code>>] >>

\* One poll awaits the provider while another command holds the lock and
\* has already replaced the session the poll copied.
C21_Witness ==
    \E t, u \in Tasks :
        /\ InFlight(t)
        /\ lock = u /\ pc[u] = "poll_read"
        /\ pending_auth # loc[t].dc

\* The endpoints of the requests an invocation has issued, in order.
Eps(requests) == [i \in 1..Len(requests) |-> requests[i].ep]

IsPrefix(a, b) == Len(a) <= Len(b) /\ \A i \in 1..Len(a) : a[i] = b[i]

\* The requests of a command that runs the chain: its token request, then
\* hops 1 to 4.
ChainOrder(name) ==
    << IF name = "poll" THEN "token" ELSE "token_refresh",
       "xbl", "xsts", "login_with_xbox", "profile" >>

\* The hop whose map_err / ok_or produces the error text.
FailedHop(e) ==
    IF e \in {"Xbox Live auth failed", "Xbox Live response parse failed",
              "No Xbox user hash in response"} THEN "xbl"
    ELSE IF e \in {"XSTS auth failed", "XSTS response parse failed"} THEN "xsts"
    ELSE IF e \in {"Minecraft auth failed", "Minecraft auth response parse failed"}
    THEN "login_with_xbox"
    ELSE IF e \in {"Minecraft profile fetch failed", "Minecraft profile parse failed"}
    THEN "profile"
    ELSE ""

\* C22 (states): the requests issued so far are a prefix of token request,
\* hop 1, hop 2, hop 3, hop 4; the store is written only after all four, the
\* game token first; a chain that failed at a hop issued that hop last and
\* wrote nothing.
C22_RequestsInOrder ==
    \A t \in Tasks :
        op[t] \in {"poll", "refresh"} =>
        /\ IsPrefix(Eps(sent[t]), ChainOrder(op[t]))
        /\ pc[t] = "hop1" => Len(sent[t]) = 1
        /\ pc[t] = "set1" => Len(sent[t]) = 5 /\ store = snap[t].store
        /\ pc[t] = "set2" =>
             /\ Len(sent[t]) = 5
             /\ \A i \in ProfileIds : store[MsKey(i)] = snap[t].store[MsKey(i)]
        /\ HopFailed(t) =>
             /\ Eps(sent[t])[Len(sent[t])] = FailedHop(res[t].err)
             /\ store = snap[t].store

\* C22: the chain issues hop 1, hop 2, hop 3, hop 4 and then the two store
\* writes in that order, each hop at most once, and after a failed hop the
\* invocation issues no request and writes nothing.
C22_ChainOrder ==
    /\ []C22_RequestsInOrder
    /\ [][\A t \in Tasks :
            /\ (op[t] \in {"poll", "refresh"} /\ store' # store)
                => pc[t] \in {"set1", "set2"}
            /\ pc[t] = "ret"
                => /\ sent'[t] \in {sent[t], <<>>}
                   /\ store' = store]_vars

\* A chain that got as far as hop 3 and failed there.
C22_Witness ==
    \E t \in Tasks :
        /\ HopFailed(t)
        /\ FailedHop(res[t].err) = "login_with_xbox"
        /\ Len(sent[t]) = 4

\* C23: a hop answered with a non-success status makes the chain fail at
\* that hop whatever the body is: the invocation has returned an error and
\* has persisted nothing.
C23_RefusedHopFailsChain ==
    \A t \in Tasks :
        seen[t].refused
        => /\ pc[t] = "ret" /\ ~res[t].ok
           /\ store = snap[t].store

\* C24: a hop-1 response with an empty xui list makes the chain fail with
\* "No Xbox user hash in response", hop 1 being the last request and nothing
\* written; otherwise the user hash sent in hop 3 is the uhs of the first
\* entry of the hop-1 list.
C24_UserHashFromHop1 ==
    \A t \in Tasks :
        /\ seen[t].xui = Some(<<>>)
            => /\ pc[t] = "ret"
               /\ res[t] = Err("No Xbox user hash in response")
               /\ Eps(sent[t])[Len(sent[t])] = "xbl"
               /\ store = snap[t].store
        /\ \A i \in 1..Len(sent[t]) :
            sent[t][i].ep = "login_with_xbox"
            => /\ IsSome(seen[t].xui)
               /\ sent[t][i].with[1] = Head(Unwrap(seen[t].xui))

\* Hop 3 was sent after a hop-1 response with two claims.
C24_Witness ==
    \E t \in Tasks :
        /\ IsSome(seen[t].xui) /\ Len(Unwrap(seen[t].xui)) = 2
        /\ \E i \in 1..Len(sent[t]) : sent[t][i].ep = "login_with_xbox"

\* The kind of entry a key names.
IsMcKey(k) == k[1] = "mc_access_token_"

\* C25 (states): game-token entries hold only game-service tokens and
\* refresh-token entries only refresh tokens, so no bearer access token,
\* Xbox Live token, XSTS token or device code is in the store.
C25_StoreHoldsDerivedTokens ==
    \A i \in ProfileIds :
        /\ store[McKey(i)] \in Option(McToks)
        /\ store[MsKey(i)] \in Option(RefreshToks)

\* C25: in every state the store holds only game tokens under the
\* game-token keys and refresh tokens under the refresh-token keys, and each
\* value written is the hop-3 access token, respectively the refresh token
\* of the token response, of the invocation that writes it.
C25_OnlyDerivedTokensPersisted ==
    /\ []C25_StoreHoldsDerivedTokens
    /\ [][\A k \in Keys :
            (store'[k] # store[k] /\ IsSome(store'[k]))
            => \E t \in Tasks :
                IF IsMcKey(k)
                THEN /\ IsSome(seen[t].mc)
                     /\ store'[k] = Some(Unwrap(seen[t].mc).access_token)
                ELSE /\ IsSome(resp[t].tok)
                     /\ store'[k] = Some(Unwrap(resp[t].tok).refresh_token)]_vars

\* Both entries of an account are stored.
C25_Witness ==
    \E i \in ProfileIds : IsSome(store[McKey(i)]) /\ IsSome(store[MsKey(i)])

\* The device code a poll copied from the slot and sent.
PolledCode(t) == sent[t][1].with[1]

\* C26: a poll that reaches a clearing outcome while the slot holds a
\* session other than the one it polled leaves that session pending.
C26_PollClearsOnlyItsSession ==
    [][\A t \in Tasks :
        (/\ pc[t] = "poll_clear" /\ pc'[t] = "ret"
         /\ IsSome(pending_auth)
         /\ Unwrap(pending_auth).device_code # PolledCode(t))
        => pending_auth' = pending_auth]_vars

\* The token request of a poll went out and no HTTP response came back.
TransportFailed(t) == Returned(t, "poll") /\ sent[t] # <<>> /\ ~resp[t].net

\* C27: a poll whose token request fails at transport level returns an
\* error and leaves the pending session, still the one it polled, and the
\* store as they were.
C27_TransportFailureKeepsSession ==
    \A t \in Tasks :
        TransportFailed(t)
        => /\ res[t] = Err("token poll failed")
           /\ pending_auth = snap[t].pending
           /\ IsSome(pending_auth)
           /\ Unwrap(pending_auth).device_code = PolledCode(t)
           /\ store = snap[t].store

C27_Witness ==
    \E t \in Tasks :
        /\ TransportFailed(t)
        /\ \E k \in Keys : IsSome(store[k])

\* C28: the running-games table never holds two entries of one instance, and
\* a launch_game that found an entry of its instance failed with "Game is
\* already running for this instance" and spawned nothing.
C28_OneEntryPerInstance ==
    /\ \A j, k \in 1..Len(running_games) :
        j # k => running_games[j].instance_id # running_games[k].instance_id
    /\ \A t \in Tasks :
        (lreq[t].cmd = "launch" /\ lreq[t].had)
        => /\ lpc[t] = "ret"
           /\ lres[t] = Err("Game is already running for this instance")
           /\ lreq[t].pid = NoPid

\* C29: an entry leaves the table only through the exit watcher of the
\* process it records or through a kill_game of its instance.
C29_EntryRemovedOnlyByOwner ==
    [][\A k \in 1..Len(running_games) :
        LET g == running_games[k] IN
        (~\E j \in 1..Len(running_games') : running_games'[j] = g)
        => \/ \E t \in Tasks :
                /\ lpc[t] = "kill_retain" /\ lpc'[t] = "ret"
                /\ lreq[t].instance_id = g.instance_id
           \/ procs[g.pid].watcher = "waiting" /\ procs'[g.pid].watcher = "done"]_vars

\* The output of a finished probe parsed, and what the parse returned.
Parsed == jpc = "done"
Outcome == Unwrap(jres)

\* The lines of the output that contain "version", in order.
VersionLines(s) == SelectSeq(Lines(s), ContainsVersion)

\* The positions of the double quotes of a line, in order.
QuoteAt(line) ==
    LET IsQuote(i) == line[i] = "Q" IN SelectSeq([i \in 1..Len(line) |-> i], IsQuote)

\* The first quoted string of a line: the text between its first two double
\* quotes, if it has two.
FirstQuoted(line) ==
    IF Len(QuoteAt(line)) >= 2
    THEN Some(SubSeq(line, QuoteAt(line)[1] + 1, QuoteAt(line)[2] - 1))
    ELSE None

\* The text after the first double quote of a line, up to the next double
\* quote or, without one, to the end of the line.
AfterFirstQuote(line) ==
    IF Len(QuoteAt(line)) >= 2
    THEN Some(SubSeq(line, QuoteAt(line)[1] + 1, QuoteAt(line)[2] - 1))
    ELSE IF Len(QuoteAt(line)) = 1
    THEN Some(SubSeq(line, QuoteAt(line)[1] + 1, Len(line)))
    ELSE None

\* The text of v up to its first dot, and between its first and second dot.
UpToDot(v) ==
    IF \E i \in 1..Len(v) : v[i] = "."
    THEN SubSeq(v, 1, (CHOOSE i \in 1..Len(v) :
                         v[i] = "." /\ \A j \in 1..(i - 1) : v[j] # ".") - 1)
    ELSE v
MajorComponent(v) ==
    IF StartsWithOneDot(v) THEN UpToDot(SubSeq(v, 3, Len(v))) ELSE UpToDot(v)

IsNumber(c) == c # <<>> /\ \A i \in 1..Len(c) : c[i] \in Digits

\* What the parse of version string v must return.
Derived(v) ==
    IF IsNumber(MajorComponent(v))
    THEN Some([major |-> DecimalValue(MajorComponent(v)), full_version |-> v])
    ELSE None

\* C30 as claimed: the version string is the first quoted string on a line
\* containing "version"; the major is its second component when it starts
\* with "1." and its first otherwise; the result is None when there is no
\* such line or quoted string or the component is not a number.
C30_FirstQuotedOnVersionLine ==
    Parsed =>
        LET quoted == SelectSeq([i \in 1..Len(VersionLines(stderr)) |->
                                    FirstQuoted(VersionLines(stderr)[i])], IsSome)
        IN Outcome = IF quoted = <<>> THEN None ELSE Derived(Unwrap(quoted[1]))

\* C30, amended: the version string is taken from the first line containing
\* "version" only, and is the text after that line's first double quote up
\* to the next double quote or the end of the line; the major is its second
\* dot-separated component when it starts with "1." and its first
\* otherwise; the string is returned unchanged; the result is None when no
\* line contains "version", that line has no double quote, or the component
\* is not a number.
C30_FirstVersionLine ==
    Parsed =>
        Outcome = IF VersionLines(stderr) = <<>> THEN None
                  ELSE IF ~IsSome(AfterFirstQuote(VersionLines(stderr)[1])) THEN None
                  ELSE Derived(Unwrap(AfterFirstQuote(VersionLines(stderr)[1])))

\* version "1.8" parsed as major 8.
C30_Witness ==
    /\ Parsed
    /\ stderr = <<"V", "Q", "1", ".", "8", "Q">>
    /\ Outcome = Some([major |-> 8, full_version |-> <<"1", ".", "8">>])

====
